---- MODULE Spec2Model ----
(***************************************************************************)
(* Model of rysk's instruction-set front end: Instruction (decoding of    *)
(* 16/32-bit RISC-V encodings), Register and Cause.                        *)
(*                                                                         *)
(* An unsigned machine integer is modelled as the set of the positions of  *)
(* its one bits (bit 0 is the least significant), so that 32-bit and       *)
(* 64-bit values keep their full width.  Small numbers (u8 results,        *)
(* register numbers) are naturals.  An Option, and a variable that may     *)
(* hold no value, is a sequence of length 0 or 1.                          *)
(***************************************************************************)
EXTENDS Integers, FiniteSets, Sequences, TLC

\* ------------------------------------------------------------------------
\* Machine widths
\* ------------------------------------------------------------------------
U8_MAX == 255
U16_BITS == 16
U32_BITS == 32
U64_BITS == 64

\* ------------------------------------------------------------------------
\* Bounds of the input sets
\* ------------------------------------------------------------------------
\* Instruction words: at most MaxBits one bits, or at most MaxBits zero bits.
MaxBits == 2
\* Parcels: at most MaxParcelBits one bits, or at most MaxParcelBits zero bits.
MaxParcelBits == 1
\* Cause values: at most MaxCauseBits one bits, or at most MaxCauseBits zero bits.
MaxCauseBits == 1

\* ------------------------------------------------------------------------
\* Rust's integer operators on bit sets
\* ------------------------------------------------------------------------
RECURSIVE Pow2(_)
Pow2(n) == IF n = 0 THEN 1 ELSE 2 * Pow2(n - 1)

\* The integer literal n (n < 2^31) as a value.
Lit(n) == {i \in 0..30 : (n \div Pow2(i)) % 2 = 1}

\* The 32-bit literal whose upper half is hi and whose lower half is lo,
\* e.g. 0xFFFF_F000 is Lit32(\hFFFF, \hF000).
Lit32(hi, lo) == Lit(lo) \cup {i + 16 : i \in Lit(hi)}

\* The value of a bit set of fewer than 31 bits as a natural.
RECURSIVE ToNat(_)
ToNat(a) ==
    IF a = {} THEN 0
    ELSE LET i == CHOOSE j \in a : TRUE IN Pow2(i) + ToNat(a \ {i})

\* a & b, a | b
BitAnd(a, b) == a \cap b
BitOr(a, b) == a \cup b
\* !a on a value of the given width
BitNot(a, width) == (0..(width - 1)) \ a
\* a >> n on an unsigned value
Shr(a, n) == {i - n : i \in {j \in a : j >= n}}
\* a << n on a value of the given width (the bits shifted out are lost)
Shl(a, n, width) == {i + n : i \in {j \in a : j + n < width}}
\* ((a as i32) >> n) as u32: the sign bit fills the vacated positions
Sar32(a, n) ==
    Shr(a, n) \cup (IF (U32_BITS - 1) \in a THEN (U32_BITS - n)..(U32_BITS - 1) ELSE {})
\* a as u8, as a natural
AsU8(a) == ToNat(a \cap (0..7))
\* u8 addition
AddU8(x, y) == (x + y) % (U8_MAX + 1)
\* u16::to_le_bytes: the low byte first
to_le_bytes(p) == <<p \cap (0..7), Shr(p \cap (8..15), 8)>>
\* u32::from_le_bytes: the first byte is the least significant
from_le_bytes(bytes) ==
    BitOr(BitOr(bytes[1], Shl(bytes[2], 8, U32_BITS)),
          BitOr(Shl(bytes[3], 16, U32_BITS), Shl(bytes[4], 24, U32_BITS)))

\* ------------------------------------------------------------------------
\* The literals of the source
\* ------------------------------------------------------------------------
x0000_7000 == Lit32(\h0000, \h7000)
xFE00_0000 == Lit32(\hFE00, \h0000)
x0000_0F80 == Lit32(\h0000, \h0F80)
x000F_8000 == Lit32(\h000F, \h8000)
x01F0_0000 == Lit32(\h01F0, \h0000)
xFFFF_F000 == Lit32(\hFFFF, \hF000)
xFFF0_0000 == Lit32(\hFFF0, \h0000)
x000F_F000 == Lit32(\h000F, \hF000)
x0060 == Lit(\h0060)
xE000 == Lit(\hE000)
xF000 == Lit(\hF000)
xFC00 == Lit(\hFC00)
x0F80 == Lit(\h0F80)
x007C == Lit(\h007C)
x0380 == Lit(\h0380)
x001C == Lit(\h001C)
b1000_0000_0000 == Lit(\b100000000000)
b0111_1110_0000 == Lit(\b011111100000)
b0000_0001_1110 == Lit(\b000000011110)
b0111_1111_1110 == Lit(\b011111111110)
b0111_1111 == Lit(\b01111111)
b0000_0011 == Lit(\b00000011)
b1_1111 == Lit(\b11111)
b11 == Lit(\b11)
ZERO == Lit(0)

\* ------------------------------------------------------------------------
\* Register
\* ------------------------------------------------------------------------
\* A Register is its repr(u8) number.  new_unchecked transmutes num: for
\* num > 31 the behaviour is undefined and the resulting byte is arbitrary.
\* The result is the set of possible calls, each with its argument and outcome.
new_unchecked(num) ==
    IF num <= 31 THEN {[arg |-> num, out |-> num]}
    ELSE {[arg |-> num, out |-> b] : b \in 0..U8_MAX}

\* Register::new: the possible results, each the Option returned and the
\* calls of new_unchecked made.
Register_new_off_by_one(num) ==
    IF num >= 31 THEN {[opt |-> <<>>, calls |-> <<>>]}
    ELSE {[opt |-> <<c.out>>, calls |-> <<c.arg>>] : c \in new_unchecked(num)}
Register_new(num) ==
    IF num > 31 THEN {[opt |-> <<>>, calls |-> <<>>]}
    ELSE {[opt |-> <<c.out>>, calls |-> <<c.arg>>] : c \in new_unchecked(num)}

\* ------------------------------------------------------------------------
\* Instruction
\* ------------------------------------------------------------------------
Instruction_new(instruction) == instruction

from_parcels_keeps_second(parcels) ==
    IF BitAnd(parcels[1], b11) # b11
    THEN [inst |-> BitOr(parcels[1], Shl(parcels[2], 16, U32_BITS)), flag |-> TRUE]
    ELSE LET ab == to_le_bytes(parcels[1])
             cd == to_le_bytes(parcels[2])
         IN [inst |-> from_le_bytes(<<ab[1], ab[2], cd[1], cd[2]>>), flag |-> FALSE]
from_parcels(parcels) ==
    IF BitAnd(parcels[1], b11) # b11
    THEN [inst |-> parcels[1], flag |-> TRUE]
    ELSE LET ab == to_le_bytes(parcels[1])
             cd == to_le_bytes(parcels[2])
         IN [inst |-> from_le_bytes(<<ab[1], ab[2], cd[1], cd[2]>>), flag |-> FALSE]

compressed(self) == BitAnd(self, b11) # b11
standard_any_low_bit(self) == BitAnd(self, b11) # ZERO
standard(self) == BitAnd(self, b11) = b11

opcode(self) == AsU8(BitAnd(self, b0111_1111))
op(self) == AsU8(BitAnd(self, b0000_0011))
funct3(self) == AsU8(Shr(BitAnd(self, x0000_7000), 12))
funct7(self) == AsU8(Shr(BitAnd(self, xFE00_0000), 25))
compressed_funct2(self) == AsU8(Shr(BitAnd(self, x0060), 5))
compressed_funct3(self) == AsU8(Shr(BitAnd(self, xE000), 13))
compressed_funct4(self) == AsU8(Shr(BitAnd(self, xF000), 12))
compressed_funct6(self) == AsU8(Shr(BitAnd(self, xFC00), 10))

rd(self) == new_unchecked(AsU8(Shr(BitAnd(self, x0000_0F80), 7)))
rs1(self) == new_unchecked(AsU8(Shr(BitAnd(self, x000F_8000), 15)))
rs2_wide_mask(self) == new_unchecked(AsU8(Shr(BitAnd(self, Lit32(\h03F0, \h0000)), 20)))
rs2(self) == new_unchecked(AsU8(Shr(BitAnd(self, x01F0_0000), 20)))
compressed_rs1(self) == new_unchecked(AsU8(Shr(BitAnd(self, x0F80), 7)))
compressed_rs2(self) == new_unchecked(AsU8(Shr(BitAnd(self, x007C), 2)))
crs1(self) == new_unchecked(AddU8(AsU8(Shr(BitAnd(self, x0380), 7)), 8))
crs2_no_offset(self) == new_unchecked(AsU8(Shr(BitAnd(self, x001C), 2)))
crs2(self) == new_unchecked(AddU8(AsU8(Shr(BitAnd(self, x001C), 2)), 8))

i_immediate_logical_shift(self) == Shr(self, 20)
i_immediate(self) == Sar32(self, 20)
s_immediate(self) ==
    BitOr(BitAnd(Sar32(self, 20), BitNot(b1_1111, U32_BITS)),
          BitAnd(Shr(self, 7), b1_1111))
b_immediate_bit7_unmoved(self) ==
    BitOr(BitOr(BitAnd(Sar32(self, 19), xFFFF_F000),
                BitAnd(Shl(self, 3, U32_BITS), b1000_0000_0000)),
          BitOr(BitAnd(Shr(self, 20), b0111_1110_0000),
                BitAnd(Shr(self, 7), b0000_0001_1110)))
b_immediate(self) ==
    BitOr(BitOr(BitAnd(Sar32(self, 19), xFFFF_F000),
                BitAnd(Shl(self, 4, U32_BITS), b1000_0000_0000)),
          BitOr(BitAnd(Shr(self, 20), b0111_1110_0000),
                BitAnd(Shr(self, 7), b0000_0001_1110)))
u_immediate(self) == BitAnd(self, xFFFF_F000)
j_immediate(self) ==
    BitOr(BitOr(BitAnd(Sar32(self, 11), xFFF0_0000),
                BitAnd(self, x000F_F000)),
          BitOr(BitAnd(Shr(self, 8), b1000_0000_0000),
                BitAnd(Shr(self, 20), b0111_1111_1110)))

\* ------------------------------------------------------------------------
\* Cause
\* ------------------------------------------------------------------------
Cause32_INTERRUPT_BIT == Shl(Lit(1), U32_BITS - 1, U32_BITS)
Cause32_interrupt(self) == BitAnd(self, Cause32_INTERRUPT_BIT) # ZERO
Cause64_INTERRUPT_BIT == Shl(Lit(1), U64_BITS - 1, U64_BITS)
Cause64_interrupt_bit31(self) == BitAnd(self, Shl(Lit(1), U32_BITS - 1, U64_BITS)) # Lit(0)
Cause64_interrupt(self) == BitAnd(self, Cause64_INTERRUPT_BIT) # ZERO

\* The predefined exception causes of each variant.
Cause32_FETCH_MISALIGN == Lit(0)
Cause32_FETCH_FAULT == Lit(1)
Cause32_ILLEGAL_INSTRUCTION == Lit(2)
Cause32_BREAKPOINT == Lit(3)
Cause32_LOAD_MISALIGN == Lit(4)
Cause32_LOAD_FAULT == Lit(5)
Cause32_STORE_MISALIGN == Lit(6)
Cause32_STORE_FAULT == Lit(7)
Cause32_Exceptions ==
    {Cause32_FETCH_MISALIGN, Cause32_FETCH_FAULT, Cause32_ILLEGAL_INSTRUCTION, Cause32_BREAKPOINT,
     Cause32_LOAD_MISALIGN, Cause32_LOAD_FAULT, Cause32_STORE_MISALIGN, Cause32_STORE_FAULT}
Cause64_FETCH_MISALIGN == Lit(0)
Cause64_FETCH_FAULT == Lit(1)
Cause64_ILLEGAL_INSTRUCTION == Lit(2)
Cause64_BREAKPOINT == Lit(3)
Cause64_LOAD_MISALIGN == Lit(4)
Cause64_LOAD_FAULT == Lit(5)
Cause64_STORE_MISALIGN == Lit(6)
Cause64_STORE_FAULT == Lit(7)
Cause64_Exceptions ==
    {Cause64_FETCH_MISALIGN, Cause64_FETCH_FAULT, Cause64_ILLEGAL_INSTRUCTION, Cause64_BREAKPOINT,
     Cause64_LOAD_MISALIGN, Cause64_LOAD_FAULT, Cause64_STORE_MISALIGN, Cause64_STORE_FAULT}

\* ------------------------------------------------------------------------
\* Inputs
\* ------------------------------------------------------------------------
\* The values of the given width with at most k one bits.
RECURSIVE Sparse(_, _)
Sparse(k, width) ==
    IF k = 0 THEN {{}}
    ELSE LET fewer == Sparse(k - 1, width)
         IN fewer \cup {s \cup {i} : s \in fewer, i \in 0..(width - 1)}

\* Sparse values and their complements.
TwoSided(k, width) ==
    LET sparse == Sparse(k, width)
    IN sparse \cup {BitNot(s, width) : s \in sparse}

\* The words of the doc test of Instruction.
Fixtures ==
    {Lit32(\h4133, \hD893), Lit32(\h4D25, \h8FE7), Lit32(\h7FBF, \hAFA3),
     Lit32(\hFE85, \h7EE3), Lit32(\hDEAD, \h47B7), Lit32(\h2D5D, \hE3EF)}

\* Every 5-bit number in each of the register fields, other bits zero.
FieldSweep == {Shl(Lit(n), pos, U32_BITS) : n \in 0..31, pos \in {2, 7, 15, 20}}

Words == Fixtures \cup FieldSweep \cup TwoSided(MaxBits, U32_BITS)
Parcels == TwoSided(MaxParcelBits, U16_BITS)
CauseValues32 == Cause32_Exceptions \cup TwoSided(MaxCauseBits, U32_BITS)
CauseValues64 == Cause64_Exceptions \cup TwoSided(MaxCauseBits, U64_BITS)

\* ------------------------------------------------------------------------
\* State
\* ------------------------------------------------------------------------
VARIABLES
    inst,       \* <<w>>: the Instruction the caller holds; <<>>: none
    last,       \* the name of the operation performed last
    arg,        \* its arguments (self excluded)
    ret,        \* <<v>>: its result, when that is not a Register
    reg,        \* <<r>>: the Register it produced; <<>>: none
    unchecked   \* the arguments of the calls of new_unchecked it made

vars == <<inst, last, arg, ret, reg, unchecked>>

Init ==
    /\ inst = <<>>
    /\ last = "init"
    /\ arg = <<>>
    /\ ret = <<>>
    /\ reg = <<>>
    /\ unchecked = <<>>

\* ------------------------------------------------------------------------
\* Operations
\* ------------------------------------------------------------------------
InstructionNew ==
    /\ last = "init"
    /\ \E w \in Words :
        /\ inst' = <<Instruction_new(w)>>
        /\ arg' = <<w>>
    /\ last' = "new"
    /\ UNCHANGED <<ret, reg, unchecked>>

FromParcels ==
    /\ last = "init"
    /\ \E p0 \in Parcels, p1 \in Parcels :
        LET r == from_parcels(<<p0, p1>>)
        IN /\ inst' = <<r.inst>>
           /\ ret' = <<r.flag>>
           /\ arg' = <<p0, p1>>
    /\ last' = "from_parcels"
    /\ UNCHANGED <<reg, unchecked>>

\* The accessors take self by value and leave it as it is: each is applied
\* to an instruction as it was constructed.
Constructed == inst # <<>> /\ last \in {"new", "from_parcels"}

\* An accessor returning a bool, a u8 or a u32.
Access(name, value) ==
    /\ Constructed
    /\ last' = name
    /\ arg' = <<>>
    /\ ret' = <<value>>
    /\ reg' = <<>>
    /\ unchecked' = <<>>
    /\ UNCHANGED inst

\* An accessor returning a Register, built by new_unchecked.
AccessRegister(name, calls) ==
    /\ Constructed
    /\ \E c \in calls :
        /\ reg' = <<c.out>>
        /\ unchecked' = <<c.arg>>
    /\ last' = name
    /\ arg' = <<>>
    /\ ret' = <<>>
    /\ UNCHANGED inst

Compressed == Constructed /\ Access("compressed", compressed(inst[1]))
Standard == Constructed /\ Access("standard", standard(inst[1]))
Opcode == Constructed /\ Access("opcode", opcode(inst[1]))
Op == Constructed /\ Access("op", op(inst[1]))
Funct3 == Constructed /\ Access("funct3", funct3(inst[1]))
Funct7 == Constructed /\ Access("funct7", funct7(inst[1]))
CompressedFunct2 == Constructed /\ Access("compressed_funct2", compressed_funct2(inst[1]))
CompressedFunct3 == Constructed /\ Access("compressed_funct3", compressed_funct3(inst[1]))
CompressedFunct4 == Constructed /\ Access("compressed_funct4", compressed_funct4(inst[1]))
CompressedFunct6 == Constructed /\ Access("compressed_funct6", compressed_funct6(inst[1]))
Rd == Constructed /\ AccessRegister("rd", rd(inst[1]))
Rs1 == Constructed /\ AccessRegister("rs1", rs1(inst[1]))
Rs2 == Constructed /\ AccessRegister("rs2", rs2(inst[1]))
CompressedRs1 == Constructed /\ AccessRegister("compressed_rs1", compressed_rs1(inst[1]))
CompressedRs2 == Constructed /\ AccessRegister("compressed_rs2", compressed_rs2(inst[1]))
Crs1 == Constructed /\ AccessRegister("crs1", crs1(inst[1]))
Crs2 == Constructed /\ AccessRegister("crs2", crs2(inst[1]))
IImmediate == Constructed /\ Access("i_immediate", i_immediate(inst[1]))
SImmediate == Constructed /\ Access("s_immediate", s_immediate(inst[1]))
BImmediate == Constructed /\ Access("b_immediate", b_immediate(inst[1]))
UImmediate == Constructed /\ Access("u_immediate", u_immediate(inst[1]))
JImmediate == Constructed /\ Access("j_immediate", j_immediate(inst[1]))

RegisterNew ==
    /\ last = "init"
    /\ \E num \in 0..U8_MAX :
        /\ arg' = <<num>>
        /\ \E r \in Register_new(num) :
            /\ reg' = r.opt
            /\ unchecked' = r.calls
    /\ last' = "Register::new"
    /\ UNCHANGED <<inst, ret>>

\* new_unchecked is a pub fn: a caller outside the crate chooses num.
RegisterNewUnchecked ==
    /\ last = "init"
    /\ \E num \in 0..U8_MAX :
        /\ arg' = <<num>>
        /\ \E c \in new_unchecked(num) :
            /\ reg' = <<c.out>>
            /\ unchecked' = <<c.arg>>
    /\ last' = "Register::new_unchecked"
    /\ UNCHANGED <<inst, ret>>

CauseInterrupt32 ==
    /\ last = "init"
    /\ \E v \in CauseValues32 :
        /\ arg' = <<v>>
        /\ ret' = <<Cause32_interrupt(v)>>
    /\ last' = "Cause<u32>::interrupt"
    /\ UNCHANGED <<inst, reg, unchecked>>

CauseInterrupt64 ==
    /\ last = "init"
    /\ \E v \in CauseValues64 :
        /\ arg' = <<v>>
        /\ ret' = <<Cause64_interrupt(v)>>
    /\ last' = "Cause<u64>::interrupt"
    /\ UNCHANGED <<inst, reg, unchecked>>

\* The caller lets go of every value it holds.
Drop ==
    /\ last # "init"
    /\ inst' = <<>>
    /\ last' = "init"
    /\ arg' = <<>>
    /\ ret' = <<>>
    /\ reg' = <<>>
    /\ unchecked' = <<>>

Next ==
    \/ InstructionNew
    \/ FromParcels
    \/ Compressed
    \/ Standard
    \/ Opcode
    \/ Op
    \/ Funct3
    \/ Funct7
    \/ CompressedFunct2
    \/ CompressedFunct3
    \/ CompressedFunct4
    \/ CompressedFunct6
    \/ Rd
    \/ Rs1
    \/ Rs2
    \/ CompressedRs1
    \/ CompressedRs2
    \/ Crs1
    \/ Crs2
    \/ IImmediate
    \/ SImmediate
    \/ BImmediate
    \/ UImmediate
    \/ JImmediate
    \/ RegisterNew
    \/ RegisterNewUnchecked
    \/ CauseInterrupt32
    \/ CauseInterrupt64
    \/ Drop

Spec == Init /\ [][Next]_vars

\* ------------------------------------------------------------------------
\* Properties
\* ------------------------------------------------------------------------
\* Bits lo..hi of w, read as a number (bit lo is its least significant bit).
RECURSIVE Field(_, _, _)
Field(w, lo, hi) ==
    IF hi < lo THEN 0
    ELSE (IF lo \in w THEN 1 ELSE 0) + 2 * Field(w, lo + 1, hi)

\* Bits 1 and 0 of w are both one.
LowBitsAre11(w) == 0 \in w /\ 1 \in w

\* C1: from_parcels returns the flag true exactly when the low two bits of
\* the first parcel are not 0b11; then the backing value is the first parcel
\* zero-extended, whatever the second parcel is; otherwise the flag is false
\* and the backing value has the first parcel in bits [15:0] and the second
\* in bits [31:16].
C1_FromParcels ==
    last = "from_parcels" =>
        LET p0 == arg[1]
            p1 == arg[2]
            w == inst[1]
            flag == ret[1]
        IN /\ flag <=> ~LowBitsAre11(p0)
           /\ flag => (\A i \in 0..31 : i \in w <=> (i <= 15 /\ i \in p0))
           /\ ~flag => (\A i \in 0..31 :
                           i \in w <=> IF i <= 15 THEN i \in p0 ELSE (i - 16) \in p1)
           /\ w \subseteq 0..31

\* A compressed first parcel followed by a second parcel that is not zero.
C1_Witness ==
    /\ last = "from_parcels"
    /\ ret = <<TRUE>>
    /\ arg[1] # {}
    /\ arg[2] # {}
    /\ inst = <<arg[1]>>

\* C2: b_immediate is the B-type immediate: bits [31:12] all equal bit 31 of
\* the word, bit 11 is bit 7, bits [10:5] are bits [30:25], bits [4:1] are
\* bits [11:8], bit 0 is zero.
C2_BImmediate ==
    last = "b_immediate" =>
        LET w == inst[1]
            r == ret[1]
        IN /\ \A i \in 12..31 : i \in r <=> 31 \in w
           /\ 11 \in r <=> 7 \in w
           /\ \A i \in 5..10 : i \in r <=> (i + 20) \in w
           /\ \A i \in 1..4 : i \in r <=> (i + 7) \in w
           /\ 0 \notin r
           /\ r \subseteq 0..31

\* bgeu x10,x8,-4: the word 0xfe857ee3 decodes to -4.
C2_Witness ==
    /\ last = "b_immediate"
    /\ inst = <<Lit32(\hFE85, \h7EE3)>>
    /\ ret = <<2..31>>

\* C3: j_immediate is the J-type immediate: bits [31:20] all equal bit 31 of
\* the word, bits [19:12] are bits [19:12], bit 11 is bit 20, bits [10:1] are
\* bits [30:21], bit 0 is zero.
C3_JImmediate ==
    last = "j_immediate" =>
        LET w == inst[1]
            r == ret[1]
        IN /\ \A i \in 20..31 : i \in r <=> 31 \in w
           /\ \A i \in 12..19 : i \in r <=> i \in w
           /\ 11 \in r <=> 20 \in w
           /\ \A i \in 1..10 : i \in r <=> (i + 20) \in w
           /\ 0 \notin r
           /\ r \subseteq 0..31

\* C4: the upper bits of each sign-extended immediate all equal bit 31 of
\* the word: bits [31:11] of i_immediate and s_immediate, bits [31:12] of
\* b_immediate, bits [31:20] of j_immediate.
C4_SignExtension ==
    /\ last \in {"i_immediate", "s_immediate"} =>
           \A i \in 11..31 : i \in ret[1] <=> 31 \in inst[1]
    /\ last = "b_immediate" =>
           \A i \in 12..31 : i \in ret[1] <=> 31 \in inst[1]
    /\ last = "j_immediate" =>
           \A i \in 20..31 : i \in ret[1] <=> 31 \in inst[1]

\* A negative I-type immediate that is not all ones.
C4_Witness ==
    /\ last = "i_immediate"
    /\ 31 \in inst[1]
    /\ (11..31) \subseteq ret[1]
    /\ ret[1] # 0..31

\* C5: opcode, funct3 and funct7 are bits [6:0], [14:12] and [31:25] of the
\* word; rd, rs1 and rs2 are the registers numbered by bits [11:7], [19:15]
\* and [24:20].
C5_StandardFields ==
    /\ last = "opcode" => ret = <<Field(inst[1], 0, 6)>>
    /\ last = "funct3" => ret = <<Field(inst[1], 12, 14)>>
    /\ last = "funct7" => ret = <<Field(inst[1], 25, 31)>>
    /\ last = "rd" => reg = <<Field(inst[1], 7, 11)>>
    /\ last = "rs1" => reg = <<Field(inst[1], 15, 19)>>
    /\ last = "rs2" => reg = <<Field(inst[1], 20, 24)>>
    /\ last \in {"rd", "rs1", "rs2"} => reg[1] \in 0..31

\* srai x17,x7,19: the word 0x4133d893 has rs2 = X19.
C5_Witness ==
    /\ last = "rs2"
    /\ inst = <<Lit32(\h4133, \hD893)>>
    /\ reg = <<19>>

\* C6: crs1 is the register numbered bits [9:7] plus 8, crs2 the register
\* numbered bits [4:2] plus 8; both lie in X8..X15.
C6_CompressedRegisters ==
    /\ last = "crs1" => reg = <<Field(inst[1], 7, 9) + 8>>
    /\ last = "crs2" => reg = <<Field(inst[1], 2, 4) + 8>>
    /\ last \in {"crs1", "crs2"} => reg[1] \in 8..15

\* The largest raw field of crs2, with the bits around the field zero.
C6_Witness ==
    /\ last = "crs2"
    /\ Field(inst[1], 2, 4) = 7
    /\ Field(inst[1], 5, 6) = 0
    /\ reg = <<15>>

\* C7: Register::new(n) is the register numbered n for n in 0..31 and None
\* for n in 32..255.
C7_RegisterNew ==
    last = "Register::new" =>
        /\ arg[1] <= 31 => reg = <<arg[1]>>
        /\ arg[1] > 31 => reg = <<>>

\* The last valid register number.
C7_Witness ==
    /\ last = "Register::new"
    /\ arg = <<31>>
    /\ reg = <<31>>

\* C8: every call of new_unchecked has an argument in 0..31 and every
\* Register in existence has a number in 0..31.
C8_UncheckedInRange ==
    /\ \A i \in 1..Len(unchecked) : unchecked[i] <= 31
    /\ \A i \in 1..Len(reg) : reg[i] <= 31

\* C9: standard() holds exactly when the low two bits are 0b11, compressed()
\* exactly when they are not; exactly one of the two holds.
C9_Encoding ==
    /\ last = "standard" => (ret[1] <=> LowBitsAre11(inst[1]))
    /\ last = "compressed" => (ret[1] <=> ~LowBitsAre11(inst[1]))
    /\ inst # <<>> => (compressed(inst[1]) <=> ~standard(inst[1]))

\* A word with one of its low two bits set is not standard.
C9_Witness ==
    /\ last = "standard"
    /\ ret = <<FALSE>>
    /\ inst[1] \cap {0, 1} # {}

\* C10: in both variants interrupt() is true exactly when the top bit of the
\* value is set; the eight exception causes are 0..7 in both variants and
\* none is an interrupt.
C10_Interrupt ==
    /\ last = "Cause<u32>::interrupt" => (ret[1] <=> 31 \in arg[1])
    /\ last = "Cause<u64>::interrupt" => (ret[1] <=> 63 \in arg[1])
    /\ last = "init" =>
           /\ {Field(c, 0, 31) : c \in Cause32_Exceptions} = 0..7
           /\ {Field(c, 0, 63) : c \in Cause64_Exceptions} = 0..7
    /\ (last = "Cause<u32>::interrupt" /\ arg[1] \in Cause32_Exceptions) => ~ret[1]
    /\ (last = "Cause<u64>::interrupt" /\ arg[1] \in Cause64_Exceptions) => ~ret[1]

\* A 64-bit cause with the top bit and low bits set.
C10_Witness ==
    /\ last = "Cause<u64>::interrupt"
    /\ ret = <<TRUE>>
    /\ arg[1] \cap (0..31) # {}

====
